---- MODULE Spec2Model ----
(***************************************************************************)
(* FileHandler (src/index.js): ingest a file from a path, URL, Buffer,     *)
(* Readable or Blob, resolve (bytes, mimeType), conditionally re-encode    *)
(* images with sharp, and export the result.                               *)
(*                                                                         *)
(* Every async function is cut at its awaits: one action per resumption.   *)
(* Byte contents are abstracted to what the pipeline and the codec can     *)
(* observe of them: container kind, format, dimensions, encoding quality   *)
(* and the number of encodings they went through.                          *)
(***************************************************************************)
EXTENDS Integers, Sequences, FiniteSets, TLC

\* ---------------------------------------------------------------- bounds
NCalls == 2
MaxDim == 3
BigDim == 600
MaxChunks == 2

\* ------------------------------------------------------ program constants
DefaultMaxWidth == 500
DefaultMaxHeight == 500
DefaultQuality == 90
DefaultFormat == "jpeg"

Calls == 1..NCalls
NoCall == 0

\* ------------------------------------------------------------ MIME values
\* A MIME string "top/sub" is kept as its two halves, so that
\* startsWith('image/') is a test on the first half.  The JS values null,
\* false and '' that can stand where a MIME string is expected are kept
\* apart from each other and from every string.
Mime(top, sub) == [top |-> top, sub |-> sub]
NullValue == Mime("<null>", "")
FalseValue == Mime("<false>", "")
EmptyString == Mime("", "")
OctetStream == Mime("application", "octet-stream")

Falsy(v) == v \in {NullValue, FalseValue, EmptyString}
\* JS  a || b
OrElse(a, b) == IF Falsy(a) THEN b ELSE a

\* ------------------------------------------------------------ byte values
\* kind: "img" a decodable image, "trunc" an image whose header decodes but
\* whose pixel data does not, "bin" anything else, "null" no buffer.
Bytes(kind, fmt, w, h, q, gen) ==
    [kind |-> kind, fmt |-> fmt, w |-> w, h |-> h, q |-> q, gen |-> gen]
NullBuffer == Bytes("null", "", 0, 0, 0, 0)
BinBytes == Bytes("bin", "", 0, 0, 0, 0)
\* what Buffer.concat yields when chunks are lost or out of order
Garbled == Bytes("bin", "garbled", 0, 0, 0, 0)

SourceFormats == {"jpeg", "png"}
Dims == (1..MaxDim) \cup {BigDim}
Images == {Bytes("img", f, w, h, 0, 0) : f \in SourceFormats, w \in Dims, h \in Dims}
Truncated == {Bytes("trunc", f, MaxDim, MaxDim, 0, 0) : f \in SourceFormats}
Contents == Images \cup Truncated \cup {BinBytes}


\* ------------------------------------------------------------- inputs
\* An input is the JS value handed to handle together with what the outside
\* world holds behind it: `data` is the body the URL serves, the content of
\* the file, the bytes of the Buffer or Blob, or what the stream yields in
\* `nchunks` chunks; `decl` is the response's content-type header (NullValue
\* when the server sends none) or the Blob's type ('' when it has none);
\* `ext` is the extension of a path.
Input(type, scheme, ext, data, nchunks, decl) ==
    [type |-> type, scheme |-> scheme, ext |-> ext, data |-> data,
     nchunks |-> nchunks, decl |-> decl]
NoInput == Input("", "", "", NullBuffer, 0, NullValue)

Headers == {NullValue, Mime("image", "png"), Mime("text", "plain")}
Extensions == {"png", "jpg", "pdf", ""}
BlobTypes == {EmptyString, Mime("image", "jpeg"), Mime("application", "pdf")}

UrlInputs == {Input("string", s, "", d, 0, t) :
                 s \in {"http://", "https://"}, d \in Contents, t \in Headers}
PathInputs == {Input("string", "", e, d, 0, NullValue) :
                 e \in Extensions, d \in Contents}
BufferInput(d) == Input("Buffer", "", "", d, 0, NullValue)
BufferInputs == {BufferInput(d) : d \in Contents}
StreamInputs == {Input("Readable", "", "", d, n, NullValue) :
                 d \in Contents, n \in 1..MaxChunks}
BlobInputs == {Input("Blob", "", "", d, 0, t) : d \in Contents, t \in BlobTypes}
\* a number, a plain object, a Uint8Array ...
OtherInput == Input("other", "", "", NullBuffer, 0, NullValue)
Inputs == UrlInputs \cup PathInputs \cup BufferInputs \cup StreamInputs
             \cup BlobInputs \cup {OtherInput}

\* options as the caller supplies them; 0, "" and FALSE stand for an omitted
\* (or falsy) field
Options(mw, mh, q, f, skip) ==
    [maxWidth |-> mw, maxHeight |-> mh, quality |-> q, format |-> f,
     skipImageOptimization |-> skip]
SuppliedOptions == {Options(mw, mh, q, f, s) :
                      mw \in {0, MaxDim - 1}, mh \in {0, MaxDim - 1, MaxDim},
                      q \in {0, 80}, f \in {"", "png", "webp"}, s \in BOOLEAN}

\* the inputs and options of the callers that overlap their calls or write
\* the asset to a file
SampleInputs ==
    {BufferInput(Bytes("img", "png", MaxDim, MaxDim, 0, 0)),
     BufferInput(BinBytes),
     Input("string", "", "pdf", BinBytes, 0, NullValue),
     Input("string", "https://", "", Bytes("img", "jpeg", BigDim, MaxDim, 0, 0), 0,
           Mime("image", "png")),
     Input("string", "http://", "", BinBytes, 0, NullValue),
     Input("Readable", "", "", BinBytes, MaxChunks, NullValue),
     Input("Blob", "", "", BinBytes, 0, EmptyString),
     OtherInput}
SampleOptions == {Options(0, 0, 0, "", FALSE), Options(0, 0, 0, "webp", TRUE)}

\* ------------------------------------------------- FileHandler, pure parts
\* constructor: this.options
FileHandlerOptions(o) ==
    Options(IF o.maxWidth # 0 THEN o.maxWidth ELSE DefaultMaxWidth,
            IF o.maxHeight # 0 THEN o.maxHeight ELSE DefaultMaxHeight,
            IF o.quality # 0 THEN o.quality ELSE DefaultQuality,
            IF o.format # "" THEN o.format ELSE DefaultFormat,
            o.skipImageOptimization)

\* this.mimeType?.startsWith('image/') : "undefined" when mimeType is null
isImage(m) ==
    IF m = NullValue THEN "undefined"
    ELSE IF m.top = "image" THEN "true" ELSE "false"

\* JS truthiness of what isImage returns
Truthy(v) == v = "true"

\* input.startsWith('http://') || input.startsWith('https://')
IsURL(inp) == inp.scheme = "http://" \/ inp.scheme = "https://"

\* mime.lookup(path): false for an unknown or missing extension
lookup(ext) ==
    CASE ext = "png" -> Mime("image", "png")
      [] ext = "jpg" -> Mime("image", "jpeg")
      [] ext = "pdf" -> Mime("application", "pdf")
      [] OTHER -> FalseValue

PathMimeType(inp) == OrElse(lookup(inp.ext), OctetStream)
BlobMimeType(inp) == OrElse(inp.decl, OctetStream)

\* sharp(buffer).metadata(): succeeds when the container header decodes
Decodes(b) == b.kind \in {"img", "trunc"}
Metadata(b) == [format |-> b.fmt, width |-> b.w, height |-> b.h]

detectMimeType(b) ==
    IF Decodes(b) THEN Mime("image", Metadata(b).format) ELSE OctetStream

\* Buffer.concat(chunks): chunks are named by their position in the stream
RECURSIVE InOrder(_)
InOrder(s) == IF s = <<>> THEN TRUE
              ELSE s[Len(s)] = Len(s) /\ InOrder(SubSeq(s, 1, Len(s) - 1))
Concat(inp, s) == IF Len(s) = inp.nchunks /\ InOrder(s) THEN inp.data ELSE Garbled

\* for await (const chunk of input) chunks.push(chunk)
Push(s, chunk) == Append(s, chunk)

\* faulty variant: the opt-out is not consulted
ShouldOptimizeIgnoringSkip(m, o) == Truthy(isImage(m))

\* this.isImage() && !this.options.skipImageOptimization
ShouldOptimize(m, o) == Truthy(isImage(m)) /\ ~o.skipImageOptimization

\* faulty variant: && for ||
NeedsResizeBoth(meta, o) == meta.width > o.maxWidth /\ meta.height > o.maxHeight

\* metadata.width > maxWidth || metadata.height > maxHeight
NeedsResize(meta, o) == meta.width > o.maxWidth \/ meta.height > o.maxHeight

NoResize == [on |-> FALSE, width |-> 0, height |-> 0]
\* image.resize(maxWidth, maxHeight, {fit: 'inside', withoutEnlargement: true})
ResizeRequest(meta, o) ==
    IF NeedsResize(meta, o)
    THEN [on |-> TRUE, width |-> o.maxWidth, height |-> o.maxHeight]
    ELSE NoResize

Max(a, b) == IF a >= b THEN a ELSE b
\* n / d rounded to the nearest integer, at least one pixel
RoundDiv(n, d) == Max(1, (2 * n + d) \div (2 * d))

\* sharp's fit 'inside' with withoutEnlargement: the larger of the two shrink
\* factors w/tw, h/th is applied to both axes, and never a factor below 1
FitInside(w, h, tw, th) ==
    IF w <= tw /\ h <= th THEN <<w, h>>
    ELSE IF w * th > h * tw THEN <<tw, RoundDiv(h * tw, w)>>
    ELSE <<RoundDiv(w * th, h), th>>

\* faulty variant: an image already in the target format that needs no resize is
\* not re-encoded
toBufferKeepMatching(b, rz, o) ==
    IF b.fmt = o.format /\ ~rz.on THEN b
    ELSE LET d == IF rz.on THEN FitInside(b.w, b.h, rz.width, rz.height)
                  ELSE <<b.w, b.h>>
         IN Bytes("img", o.format, d[1], d[2], o.quality, b.gen + 1)

\* image.toFormat(format, {quality}).toBuffer()
toBuffer(b, rz, o) ==
    LET d == IF rz.on THEN FitInside(b.w, b.h, rz.width, rz.height)
             ELSE <<b.w, b.h>>
    IN Bytes("img", o.format, d[1], d[2], o.quality, b.gen + 1)

\* faulty variant: the type is rewritten to the default format, not the configured one
OptimizedMimeTypeDefault(o) == Mime("image", DefaultFormat)

\* `image/${this.options.format}`
OptimizedMimeType(o) == Mime("image", o.format)


\* ------------------------------------------------------------------ state
VARIABLES
    handler,    \* the static FileHandler.handler: the call whose handler it holds
    pc,         \* where each handle call stands
    input,      \* the input of each call
    options,    \* this.options of each call's handler
    buffer,     \* processInput's local `buffer`
    chunks,     \* processInput's local `chunks`
    mimeType,   \* this.mimeType of each call's handler
    hbuffer,    \* this.buffer of each call's handler
    resize,     \* the resize requested of sharp in optimizeImage
    used,       \* the collaborators each call has invoked
    err,        \* the error processInput was rejected with
    thrown,     \* the error the caller of handle received
    ret,        \* the handler handle resolved to (named by the call that made it)
    source,     \* the call whose output this call was given as input
    file,       \* the content of the file at the path given to toFile
    tf          \* the toFile call: its return value and the write it started

vars == <<handler, pc, input, options, buffer, chunks, mimeType, hbuffer,
          resize, used, err, thrown, ret, source, file, tf>>

NoFile == Bytes("absent", "", 0, 0, 0, 0)
NoToFile == [state |-> "none", by |-> NoCall, h |-> NoCall, data |-> NullBuffer,
             returned |-> "", threw |-> FALSE]

Init ==
    /\ handler = NoCall
    /\ pc = [c \in Calls |-> "idle"]
    /\ input = [c \in Calls |-> NoInput]
    /\ options = [c \in Calls |-> FileHandlerOptions(Options(0, 0, 0, "", FALSE))]
    /\ buffer = [c \in Calls |-> NullBuffer]
    /\ chunks = [c \in Calls |-> <<>>]
    /\ mimeType = [c \in Calls |-> NullValue]
    /\ hbuffer = [c \in Calls |-> NullBuffer]
    /\ resize = [c \in Calls |-> NoResize]
    /\ used = [c \in Calls |-> {}]
    /\ err = [c \in Calls |-> ""]
    /\ thrown = [c \in Calls |-> ""]
    /\ ret = [c \in Calls |-> NoCall]
    /\ source = [c \in Calls |-> NoCall]
    /\ file = NoFile
    /\ tf = NoToFile

\* -------------------------------------------------- handle / processInput
\* faulty variant: the final else treats the input as a Buffer instead of throwing
FirstAwaitNoThrow(inp) ==
    IF inp.type = "string"
    THEN IF IsURL(inp) THEN "fetch" ELSE "readFile"
    ELSE IF inp.type = "Readable" THEN "drain"
    ELSE IF inp.type = "Blob" THEN "arrayBuffer"
    ELSE "detectMimeType"

\* Where processInput first suspends (or throws) for an input, and the
\* collaborator it has called by then.
FirstAwait(inp) ==
    IF inp.type = "string"
    THEN IF IsURL(inp) THEN "fetch" ELSE "readFile"
    ELSE IF inp.type = "Buffer" THEN "detectMimeType"
    ELSE IF inp.type = "Readable" THEN "drain"
    ELSE IF inp.type = "Blob" THEN "arrayBuffer"
    ELSE "throw"

\* handle(input, options) up to the first await of processInput:
\*   this.handler = new FileHandler(options); this.handler.processInput(input)
Start(c, inp, o, src) ==
    /\ pc[c] = "idle"
    /\ \A d \in Calls : d < c => pc[d] # "idle"
    /\ handler' = c
    /\ input' = [input EXCEPT ![c] = inp]
    /\ options' = [options EXCEPT ![c] = FileHandlerOptions(o)]
    /\ source' = [source EXCEPT ![c] = src]
    /\ mimeType' = [mimeType EXCEPT ![c] = NullValue]
    /\ hbuffer' = [hbuffer EXCEPT ![c] = NullBuffer]
    /\ buffer' = [buffer EXCEPT ![c] =
                     IF inp.type = "Buffer" THEN inp.data ELSE NullBuffer]
    /\ LET at == FirstAwait(inp) IN
         /\ pc' = [pc EXCEPT ![c] = IF at = "throw" THEN "settled" ELSE at]
         /\ err' = [err EXCEPT ![c] =
                       IF at = "throw" THEN "Unsupported input format" ELSE ""]
         /\ used' = [used EXCEPT ![c] = IF at = "throw" THEN {} ELSE {at}]
    /\ UNCHANGED <<chunks, resize, thrown, ret, file, tf>>

\* processInput after the input is resolved to (b, m):
\*   this.mimeType = mimeType; optimizeImage up to its first await, or
\*   this.buffer = buffer
Resolved(c, b, m) ==
    /\ buffer' = [buffer EXCEPT ![c] = b]
    /\ mimeType' = [mimeType EXCEPT ![c] = m]
    /\ IF ShouldOptimize(m, options[c])
       THEN /\ pc' = [pc EXCEPT ![c] = "metadata"]
            /\ used' = [used EXCEPT ![c] = @ \cup {"metadata"}]
            /\ hbuffer' = hbuffer
       ELSE /\ pc' = [pc EXCEPT ![c] = "settled"]
            /\ used' = used
            /\ hbuffer' = [hbuffer EXCEPT ![c] = b]
    /\ UNCHANGED <<handler, input, options, resize, err, thrown, ret, source,
                   file, tf>>

\* a collaborator's promise rejects: processInput is rejected with e
Rejected(c, e) ==
    /\ pc' = [pc EXCEPT ![c] = "settled"]
    /\ err' = [err EXCEPT ![c] = e]
    /\ UNCHANGED <<handler, input, options, buffer, chunks, mimeType, hbuffer,
                   resize, used, thrown, ret, source, file, tf>>

\* const response = await fetch(input)
Fetch(c) ==
    /\ pc[c] = "fetch"
    /\ pc' = [pc EXCEPT ![c] = "body"]
    /\ UNCHANGED <<handler, input, options, buffer, chunks, mimeType, hbuffer,
                   resize, used, err, thrown, ret, source, file, tf>>

\* buffer = Buffer.from(await response.arrayBuffer());
\* mimeType = response.headers.get('content-type')
Body(c) ==
    /\ pc[c] = "body"
    /\ Resolved(c, input[c].data, input[c].decl)
    /\ UNCHANGED chunks

FetchFail(c) ==
    /\ pc[c] \in {"fetch", "body"}
    /\ Rejected(c, "FetchError")

\* buffer = await fs.readFile(input); mimeType = mime.lookup(input) || ...
ReadFile(c) ==
    /\ pc[c] = "readFile"
    /\ Resolved(c, input[c].data, PathMimeType(input[c]))
    /\ UNCHANGED chunks

ReadFileFail(c) ==
    /\ pc[c] = "readFile"
    /\ Rejected(c, "ENOENT")

\* for await (const chunk of input) chunks.push(chunk): one more chunk, or
\* the end of the stream: buffer = Buffer.concat(chunks), then detectMimeType
Drain(c) ==
    /\ pc[c] = "drain"
    /\ IF Len(chunks[c]) < input[c].nchunks
       THEN /\ chunks' = [chunks EXCEPT ![c] = Push(@, Len(@) + 1)]
            /\ UNCHANGED <<pc, buffer, used>>
       ELSE /\ buffer' = [buffer EXCEPT ![c] = Concat(input[c], chunks[c])]
            /\ pc' = [pc EXCEPT ![c] = "detectMimeType"]
            /\ used' = [used EXCEPT ![c] = @ \cup {"detectMimeType"}]
            /\ UNCHANGED chunks
    /\ UNCHANGED <<handler, input, options, mimeType, hbuffer, resize, err,
                   thrown, ret, source, file, tf>>

DrainFail(c) ==
    /\ pc[c] = "drain"
    /\ Rejected(c, "StreamError")

\* mimeType = await FileHandler.detectMimeType(buffer)
DetectMimeType(c) ==
    /\ pc[c] = "detectMimeType"
    /\ Resolved(c, buffer[c], detectMimeType(buffer[c]))
    /\ UNCHANGED chunks

\* buffer = Buffer.from(await input.arrayBuffer()); mimeType = input.type || ...
BlobArrayBuffer(c) ==
    /\ pc[c] = "arrayBuffer"
    /\ Resolved(c, input[c].data, BlobMimeType(input[c]))
    /\ UNCHANGED chunks

\* faulty variant: a decode failure is caught and the original bytes are kept
OptimizeMetadataFallback(c) ==
    /\ pc[c] = "metadata"
    /\ IF Decodes(buffer[c])
       THEN /\ resize' = [resize EXCEPT ![c] =
                             ResizeRequest(Metadata(buffer[c]), options[c])]
            /\ pc' = [pc EXCEPT ![c] = "toBuffer"]
            /\ used' = [used EXCEPT ![c] = @ \cup {"toBuffer"}]
            /\ hbuffer' = hbuffer
       ELSE /\ pc' = [pc EXCEPT ![c] = "settled"]
            /\ hbuffer' = [hbuffer EXCEPT ![c] = buffer[c]]
            /\ UNCHANGED <<resize, used>>
    /\ UNCHANGED <<handler, input, options, buffer, chunks, mimeType, err,
                   thrown, ret, source, file, tf>>

\* optimizeImage: const metadata = await image.metadata(); the resize
\* decision; image.toFormat(...); img.toBuffer() is called
OptimizeMetadata(c) ==
    /\ pc[c] = "metadata"
    /\ IF Decodes(buffer[c])
       THEN /\ resize' = [resize EXCEPT ![c] =
                             ResizeRequest(Metadata(buffer[c]), options[c])]
            /\ pc' = [pc EXCEPT ![c] = "toBuffer"]
            /\ used' = [used EXCEPT ![c] = @ \cup {"toBuffer"}]
            /\ err' = err
       ELSE /\ pc' = [pc EXCEPT ![c] = "settled"]
            /\ err' = [err EXCEPT ![c] = "CodecError"]
            /\ UNCHANGED <<resize, used>>
    /\ UNCHANGED <<handler, input, options, buffer, chunks, mimeType, hbuffer,
                   thrown, ret, source, file, tf>>

\* this.buffer = await img.toBuffer(); this.mimeType = `image/${format}`
OptimizeToBuffer(c) ==
    /\ pc[c] = "toBuffer"
    /\ IF buffer[c].kind = "img"
       THEN /\ hbuffer' = [hbuffer EXCEPT ![c] =
                              toBuffer(buffer[c], resize[c], options[c])]
            /\ mimeType' = [mimeType EXCEPT ![c] = OptimizedMimeType(options[c])]
            /\ err' = err
       ELSE /\ err' = [err EXCEPT ![c] = "CodecError"]
            /\ UNCHANGED <<hbuffer, mimeType>>
    /\ pc' = [pc EXCEPT ![c] = "settled"]
    /\ UNCHANGED <<handler, input, options, buffer, chunks, resize, used,
                   thrown, ret, source, file, tf>>

\* handle resumes from `await this.handler.processInput(input)`: it throws
\* what processInput was rejected with, or it returns this.handler
HandleReturn(c) ==
    /\ pc[c] = "settled"
    /\ IF err[c] # ""
       THEN /\ thrown' = [thrown EXCEPT ![c] = err[c]]
            /\ pc' = [pc EXCEPT ![c] = "failed"]
            /\ ret' = ret
       ELSE /\ ret' = [ret EXCEPT ![c] = handler]
            /\ pc' = [pc EXCEPT ![c] = "done"]
            /\ thrown' = thrown
    /\ UNCHANGED <<handler, input, options, buffer, chunks, mimeType, hbuffer,
                   resize, used, err, source, file, tf>>


\* ----------------------------------------------------------------- toFile
\* toFile(path, isIntermediary): fs.writeFile(path, this.buffer) is called and
\* its promise dropped; the return value is decided at once
ToFile(c, isIntermediary) ==
    /\ pc[c] = "done"
    /\ tf.state = "none"
    /\ tf' = [state |-> "pending", by |-> c, h |-> ret[c],
              data |-> hbuffer[ret[c]],
              returned |-> IF isIntermediary THEN "this" ELSE "path",
              threw |-> FALSE]
    /\ UNCHANGED <<handler, pc, input, options, buffer, chunks, mimeType,
                   hbuffer, resize, used, err, thrown, ret, source, file>>

\* the write started by fs.writeFile completes
WriteFile ==
    /\ tf.state = "pending"
    /\ file' = tf.data
    /\ tf' = [tf EXCEPT !.state = "written"]
    /\ UNCHANGED <<handler, pc, input, options, buffer, chunks, mimeType,
                   hbuffer, resize, used, err, thrown, ret, source>>

\* the write fails: the dropped promise rejects, nobody is told
WriteFileFail ==
    /\ tf.state = "pending"
    /\ tf' = [tf EXCEPT !.state = "failed"]
    /\ UNCHANGED <<handler, pc, input, options, buffer, chunks, mimeType,
                   hbuffer, resize, used, err, thrown, ret, source, file>>

\* ------------------------------------------------------------ the callers
\* the first call of a caller that awaits each handle before the next
Handle(c) ==
    /\ \A d \in Calls : pc[d] = "idle"
    /\ \E inp \in Inputs, o \in SuppliedOptions : Start(c, inp, o, NoCall)

\* the caller hands the asset it got back to handle, with the same options
HandleAgain(c) ==
    /\ c - 1 \in Calls
    /\ pc[c - 1] = "done"
    /\ Start(c, BufferInput(hbuffer[ret[c - 1]]), options[c - 1], c - 1)

\* a caller that does not await a call before issuing the next
HandleConc(c) ==
    \E inp \in SampleInputs, o \in SampleOptions : Start(c, inp, o, NoCall)

\* the first call of a caller that goes on to write the asset to a file
HandleFile(c) ==
    /\ \A d \in Calls : pc[d] = "idle"
    /\ \E inp \in SampleInputs, o \in SampleOptions : Start(c, inp, o, NoCall)

Pipeline(c) ==
    \/ Fetch(c)
    \/ Body(c)
    \/ FetchFail(c)
    \/ ReadFile(c)
    \/ ReadFileFail(c)
    \/ Drain(c)
    \/ DrainFail(c)
    \/ DetectMimeType(c)
    \/ BlobArrayBuffer(c)
    \/ OptimizeMetadata(c)
    \/ OptimizeToBuffer(c)
    \/ HandleReturn(c)

Next ==
    \/ \E c \in Calls : Handle(c)
    \/ \E c \in Calls : HandleAgain(c)
    \/ \E c \in Calls : Pipeline(c)

Spec == Init /\ [][Next]_vars

NextFile ==
    \/ \E c \in Calls : HandleFile(c)
    \/ \E c \in Calls : HandleAgain(c)
    \/ \E c \in Calls : Pipeline(c)
    \/ \E c \in Calls, i \in BOOLEAN : ToFile(c, i)
    \/ WriteFile
    \/ WriteFileFail

SpecFile == Init /\ [][NextFile]_vars

NextConc ==
    \/ \E c \in Calls : HandleConc(c)
    \/ \E c \in Calls : Pipeline(c)

SpecConc == Init /\ [][NextConc]_vars


\* ================================================================= claims
\* The type the source adapter is specified to resolve for an input
\* (spec 4.2): the response's content-type header for a URL, the extension
\* table for a path, the sniffed type for a buffer or a stream, the declared
\* type for a blob.
StartsWithImage(m) == m.top = "image"
ResolvedType(inp) ==
    CASE inp.type = "string" /\ inp.scheme # "" -> inp.decl
      [] inp.type = "string" /\ inp.scheme = "" ->
            IF inp.ext = "png" THEN Mime("image", "png")
            ELSE IF inp.ext = "jpg" THEN Mime("image", "jpeg")
            ELSE IF inp.ext = "pdf" THEN Mime("application", "pdf")
            ELSE OctetStream
      [] inp.type \in {"Buffer", "Readable"} ->
            IF inp.data.kind \in {"img", "trunc"}
            THEN Mime("image", inp.data.fmt) ELSE OctetStream
      [] inp.type = "Blob" ->
            IF inp.decl = EmptyString THEN OctetStream ELSE inp.decl
      [] OTHER -> NullValue

Returned(c) == pc[c] = "done"
\* the asset handle returned to call c
AssetBytes(c) == hbuffer[ret[c]]
AssetType(c) == mimeType[ret[c]]
TranscodeFires(c) ==
    StartsWithImage(ResolvedType(input[c])) /\ ~options[c].skipImageOptimization
Transcoded(c) == "toBuffer" \in used[c]

\* C1: outside the image branch (resolved type not image/..., or
\* skipImageOptimization) the returned asset holds the resolved input bytes
\* and the resolved type, and the codec's transcode was never invoked.
C1_PassThrough ==
    \A c \in Calls :
        Returned(c) /\ ~TranscodeFires(c) =>
            /\ AssetBytes(c) = input[c].data
            /\ AssetType(c) = ResolvedType(input[c])
            /\ used[c] \cap {"metadata", "toBuffer"} = {}

C1_Witness ==
    \E c \in Calls :
        /\ Returned(c)
        /\ options[c].skipImageOptimization
        /\ input[c].data.kind = "img"
        /\ StartsWithImage(AssetType(c))
        /\ AssetBytes(c) = input[c].data

\* C2: whenever the transcode fires, the returned bytes are a fresh encoding
\* in the configured format at the configured quality and the type is
\* image/<format>, whatever the source format and whether or not a resize
\* was requested; handling that output again with the same configuration
\* yields the same type.
C2_AlwaysReencoded ==
    \A c \in Calls :
        Returned(c) /\ TranscodeFires(c) =>
            /\ AssetBytes(c).kind = "img"
            /\ AssetBytes(c).fmt = options[c].format
            /\ AssetBytes(c).q = options[c].quality
            /\ AssetBytes(c).gen = input[c].data.gen + 1
            /\ AssetType(c) = Mime("image", options[c].format)
            /\ (source[c] # NoCall /\ Transcoded(source[c]) =>
                    AssetType(c) = AssetType(source[c]))

C2_Witness ==
    \E c \in Calls :
        /\ Returned(c)
        /\ Transcoded(c)
        /\ source[c] # NoCall
        /\ Transcoded(source[c])
        /\ input[c].data.fmt = options[c].format
        /\ ~resize[c].on
        /\ AssetBytes(c).gen = 2

\* mimeType names the encoding of bytes: an asset tagged image/X holds bytes
\* in format X, and image bytes are not tagged with another image format
Consistent(b, m) ==
    /\ StartsWithImage(m) => b.kind \in {"img", "trunc"} /\ b.fmt = m.sub
    /\ b.kind \in {"img", "trunc"} /\ StartsWithImage(m) => m.sub = b.fmt

\* C3 as claimed: after handle completes, for every input shape and every
\* configuration, the asset's mimeType names the encoding of its bytes.
C3_AlwaysConsistent ==
    \A c \in Calls : Returned(c) => Consistent(AssetBytes(c), AssetType(c))

\* C3 as amended: after handle completes the asset's mimeType names the
\* encoding of its bytes whenever skipImageOptimization is false, and for
\* buffer and stream inputs in every configuration.
C3_ConsistentUnlessDeclaredAndSkipped ==
    \A c \in Calls :
        Returned(c) /\ (~options[c].skipImageOptimization
                          \/ input[c].type \in {"Buffer", "Readable"}) =>
            Consistent(AssetBytes(c), AssetType(c))

C3_Witness ==
    \E c \in Calls :
        /\ Returned(c)
        /\ Transcoded(c)
        /\ input[c].type = "string"
        /\ ResolvedType(input[c]) = Mime("image", "png")
        /\ input[c].data.fmt = "jpeg"
        /\ AssetType(c) = Mime("image", "webp")

\* C4: overlapping handle calls are independent: each call resolves to the
\* handler made from its own input and options, with its processing
\* finished.
C4_CallsIndependent ==
    \A c \in Calls :
        Returned(c) =>
            /\ ret[c] = c
            /\ pc[ret[c]] = "done"
            /\ AssetBytes(c) # NullBuffer

Abs(x) == IF x >= 0 THEN x ELSE -x

\* C5: an image wider than maxWidth or taller than maxHeight is resized with
\* exactly the configured bounds, fit inside: the output is within both
\* bounds and each output dimension is within a pixel of the input scaled by
\* one factor; an image within the bounds gets no resize request and keeps
\* its dimensions; no dimension ever grows.
C5_ResizePolicy ==
    \A c \in Calls :
        Returned(c) /\ Transcoded(c) =>
            LET in == input[c].data
                out == AssetBytes(c)
                o == options[c]
            IN /\ out.w <= in.w /\ out.h <= in.h
               /\ IF in.w > o.maxWidth \/ in.h > o.maxHeight
                  THEN /\ resize[c] = [on |-> TRUE, width |-> o.maxWidth,
                                       height |-> o.maxHeight]
                       /\ out.w <= o.maxWidth /\ out.h <= o.maxHeight
                       /\ out.w >= 1 /\ out.h >= 1
                       /\ Abs(out.w * in.h - out.h * in.w) <= Max(in.w, in.h)
                  ELSE /\ ~resize[c].on
                       /\ out.w = in.w /\ out.h = in.h

C5_Witness ==
    \E c \in Calls :
        /\ Returned(c)
        /\ Transcoded(c)
        /\ resize[c].on
        /\ options[c].maxWidth = DefaultMaxWidth
        /\ input[c].data.w > DefaultMaxWidth
        /\ AssetBytes(c).w = DefaultMaxWidth
        /\ AssetBytes(c).h < input[c].data.h

\* C6: a URL whose response has no content-type header: handle succeeds with
\* a falsy type, no sniff and no transcode, the fetched bytes unchanged, and
\* isImage() is the boolean false.
C6_MissingContentType ==
    \A c \in Calls :
        Returned(c) /\ input[c].type = "string" /\ input[c].scheme # ""
                    /\ input[c].decl = NullValue =>
            /\ Falsy(AssetType(c))
            /\ AssetBytes(c) = input[c].data
            /\ used[c] \cap {"detectMimeType", "metadata", "toBuffer"} = {}
            /\ isImage(AssetType(c)) = "false"

\* C7: when the codec is asked to optimize bytes it cannot decode, handle
\* fails with the codec's error: no asset is returned and the handler never
\* takes the original bytes.
C7_CodecErrorPropagates ==
    \A c \in Calls :
        /\ "metadata" \in used[c] /\ buffer[c].kind # "img"
              /\ pc[c] \in {"done", "failed"} =>
                 /\ pc[c] = "failed"
                 /\ thrown[c] = "CodecError"
        /\ "metadata" \in used[c] /\ buffer[c].kind # "img" =>
                 /\ ret[c] = NoCall
                 /\ hbuffer[c] = NullBuffer

C7_Witness ==
    \E c \in Calls :
        /\ pc[c] = "failed"
        /\ thrown[c] = "CodecError"
        /\ TranscodeFires(c)
        /\ input[c].data.kind = "bin"
        /\ hbuffer[c] = NullBuffer

IOErrors == {"FetchError", "ENOENT", "StreamError"}

\* C8: every I/O collaborator failure reaches the caller of the operation
\* that triggered it: a failed fetch, read or drain makes handle fail with
\* that error, and a failed write makes toFile fail.
C8_IOFailuresPropagate ==
    /\ \A c \in Calls :
          err[c] \in IOErrors =>
              /\ pc[c] # "done"
              /\ pc[c] = "failed" => thrown[c] = err[c]
    /\ tf.state = "failed" => tf.threw

\* C9: when toFile has returned, the write has completed and the file holds
\* the asset's bytes.
C9_WrittenOnReturn ==
    tf.returned # "" => tf.state = "written" /\ file = hbuffer[tf.h]

\* C10: an input of no recognized shape makes handle fail with the
\* unsupported-input error before any fetch, read, sniff or transcode, and
\* no asset is returned.
C10_UnsupportedInput ==
    \A c \in Calls :
        pc[c] # "idle" /\ input[c].type \notin {"string", "Buffer", "Readable", "Blob"} =>
            /\ used[c] = {}
            /\ pc[c] \in {"settled", "failed"}
            /\ err[c] = "Unsupported input format"
            /\ pc[c] = "failed" => thrown[c] = "Unsupported input format"
            /\ ret[c] = NoCall
            /\ hbuffer[c] = NullBuffer

C10_Witness ==
    \E c \in Calls :
        /\ pc[c] = "failed"
        /\ input[c].type = "other"
        /\ thrown[c] = "Unsupported input format"
        /\ used[c] = {}

====
